---- MODULE Spec2Model ----
(***************************************************************************)
(* The lci parser (parser.h): a recursive-descent parser from a token      *)
(* stream to a parse tree.  The grammar is the EBNF of parser.h, the tree  *)
(* shapes are its structs, the token vocabulary is keywords.h.             *)
(*                                                                         *)
(* A token is a record [type, image].  A tree node is a record with the    *)
(* fields kind and id (its allocation number), first and last (the span of *)
(* token positions it was parsed from) and the fields of its struct.  A    *)
(* StmtNode / ExprNode and the payload struct it points to are one node;   *)
(* the node lists (StmtNodeList, ExprNodeList, ...) are nodes of their own.*)
(***************************************************************************)
EXTENDS Integers, Sequences, FiniteSets, TLC

VARIABLES tokens, vocab, phase, viable, root, ps, call

vars == <<tokens, vocab, phase, viable, root, ps, call>>

\* The longest token stream scanned over each vocabulary, the end-of-file token
\* not counted.
MaxProgram == 7
MaxLoop == 15
MaxLoopHead == 14
MaxIf == 15
MaxSwitch == 15
MaxDeclaration == 10
MaxStatement == 9
MaxOperator == 10
MaxCall == 10
MaxDefinition == 11
MaxPrint == 10

\* The longest token stream the cursor primitives are called on, the end-of-file
\* token not counted.
MaxCursor == 3

(***************************************************************************)
(* Tokens                                                                  *)
(***************************************************************************)
keywords(type) ==
    CASE type = "TT_IT" -> "IT"
      [] type = "TT_ITZLIEKA" -> "ITZ LIEK A"
      [] type = "TT_NOOB" -> "NOOB"
      [] type = "TT_NUMBR" -> "NUMBR"
      [] type = "TT_NUMBAR" -> "NUMBAR"
      [] type = "TT_TROOF" -> "TROOF"
      [] type = "TT_YARN" -> "YARN"
      [] type = "TT_BUKKIT" -> "BUKKIT"
      [] type = "TT_HAI" -> "HAI"
      [] type = "TT_KTHXBYE" -> "KTHXBYE"
      [] type = "TT_HASA" -> "HAS A"
      [] type = "TT_ITZA" -> "ITZ A"
      [] type = "TT_ITZ" -> "ITZ"
      [] type = "TT_RNOOB" -> "R NOOB"
      [] type = "TT_R" -> "R"
      [] type = "TT_ANYR" -> "AN YR"
      [] type = "TT_AN" -> "AN"
      [] type = "TT_SUMOF" -> "SUM OF"
      [] type = "TT_DIFFOF" -> "DIFF OF"
      [] type = "TT_PRODUKTOF" -> "PRODUKT OF"
      [] type = "TT_QUOSHUNTOF" -> "QUOSHUNT OF"
      [] type = "TT_MODOF" -> "MOD OF"
      [] type = "TT_BIGGROF" -> "BIGGR OF"
      [] type = "TT_SMALLROF" -> "SMALLR OF"
      [] type = "TT_BOTHOF" -> "BOTH OF"
      [] type = "TT_EITHEROF" -> "EITHER OF"
      [] type = "TT_WONOF" -> "WON OF"
      [] type = "TT_NOT" -> "NOT"
      [] type = "TT_MKAY" -> "MKAY"
      [] type = "TT_ALLOF" -> "ALL OF"
      [] type = "TT_ANYOF" -> "ANY OF"
      [] type = "TT_BOTHSAEM" -> "BOTH SAEM"
      [] type = "TT_DIFFRINT" -> "DIFFRINT"
      [] type = "TT_MAEK" -> "MAEK"
      [] type = "TT_A" -> "A"
      [] type = "TT_ISNOWA" -> "IS NOW A"
      [] type = "TT_VISIBLE" -> "VISIBLE"
      [] type = "TT_SMOOSH" -> "SMOOSH"
      [] type = "TT_BANG" -> "!"
      [] type = "TT_GIMMEH" -> "GIMMEH"
      [] type = "TT_ORLY" -> "O RLY?"
      [] type = "TT_YARLY" -> "YA RLY"
      [] type = "TT_MEBBE" -> "MEBBE"
      [] type = "TT_NOWAI" -> "NO WAI"
      [] type = "TT_OIC" -> "OIC"
      [] type = "TT_WTF" -> "WTF?"
      [] type = "TT_OMG" -> "OMG"
      [] type = "TT_OMGWTF" -> "OMGWTF"
      [] type = "TT_GTFO" -> "GTFO"
      [] type = "TT_IMINYR" -> "IM IN YR"
      [] type = "TT_UPPIN" -> "UPPIN"
      [] type = "TT_NERFIN" -> "NERFIN"
      [] type = "TT_YR" -> "YR"
      [] type = "TT_TIL" -> "TIL"
      [] type = "TT_WILE" -> "WILE"
      [] type = "TT_IMOUTTAYR" -> "IM OUTTA YR"
      [] type = "TT_HOWIZ" -> "HOW IZ"
      [] type = "TT_IZ" -> "IZ"
      [] type = "TT_IFUSAYSO" -> "IF U SAY SO"
      [] type = "TT_FOUNDYR" -> "FOUND YR"
      [] type = "TT_SRS" -> "SRS"
      [] type = "TT_APOSTROPHEZ" -> "'Z"
      [] type = "TT_OHAIIM" -> "O HAI IM"
      [] type = "TT_IMLIEK" -> "IM LIEK"
      [] type = "TT_KTHX" -> "KTHX"
      [] OTHER -> ""

\* A keyword (or structural) token, and a token that carries a payload.
Kw(type) == [type |-> type, image |-> keywords(type)]
Lit(type, image) == [type |-> type, image |-> image]

(***************************************************************************)
(* The tree                                                                *)
(***************************************************************************)
Null == [kind |-> "NULL"]
IsNull(n) == n.kind = "NULL"

\* A loop that does not own its update variable.
LoopStmtFields_NoVar(n) == <<n.name, n.guard, n.update, n.body>>

\* The pointer fields of a LoopStmtNode.
LoopStmtFields(n) == <<n.name, n.var, n.guard, n.update, n.body>>

\* The nodes a node owns, from the pointer fields of its struct, in field order.
Children(n) ==
    CASE n.kind = "MainNode" -> <<n.block>>
      [] n.kind = "BlockNode" -> <<n.stmts>>
      [] n.kind \in {"StmtNodeList", "ExprNodeList", "BlockNodeList",
                     "IdentifierNodeList"} -> n.items
      [] n.kind = "IdentifierNode" -> <<n.expr, n.slot>>
      [] n.kind = "ST_CAST" -> <<n.target, n.newtype>>
      [] n.kind = "ST_PRINT" -> <<n.args>>
      [] n.kind = "ST_INPUT" -> <<n.target>>
      [] n.kind = "ST_ASSIGNMENT" -> <<n.target, n.expr>>
      [] n.kind = "ST_DECLARATION" -> <<n.scope, n.target, n.expr, n.type, n.parent>>
      [] n.kind = "ST_IFTHENELSE" -> <<n.yes, n.no, n.guards, n.blocks>>
      [] n.kind = "ST_SWITCH" -> <<n.guards, n.blocks, n.def>>
      [] n.kind = "ST_RETURN" -> <<n.value>>
      [] n.kind = "ST_LOOP" -> LoopStmtFields(n)
      [] n.kind = "ST_DEALLOCATION" -> <<n.target>>
      [] n.kind = "ST_FUNCDEF" -> <<n.scope, n.name, n.args, n.body>>
      [] n.kind = "ST_EXPR" -> <<n.expr>>
      [] n.kind = "ST_ALTARRAYDEF" -> <<n.name, n.body, n.parent>>
      [] n.kind = "ET_CAST" -> <<n.target, n.newtype>>
      [] n.kind = "ET_FUNCCALL" -> <<n.scope, n.name, n.args>>
      [] n.kind = "ET_OP" -> <<n.args>>
      [] n.kind = "ET_IDENTIFIER" -> <<n.ident>>
      [] OTHER -> <<>>

RECURSIVE deleteNode(_)
RECURSIVE deleteNodes(_)

\* The ids released by deleting node n: its subtree, children first.  Deleting a
\* null pointer releases nothing.
deleteNode(n) ==
    IF IsNull(n) THEN <<>> ELSE Append(deleteNodes(Children(n)), n.id)

deleteNodes(ns) ==
    IF Len(ns) = 0 THEN <<>> ELSE deleteNode(Head(ns)) \o deleteNodes(Tail(ns))

deleteMainNode(n) == deleteNode(n)

(***************************************************************************)
(* The token cursor.  A parser state st is a record: toks (the stream),    *)
(* pos (the cursor), nx (the next allocation number), freed (the ids       *)
(* released so far, in order), err (diagnostics emitted), errpos (cursor   *)
(* at the diagnostic), errname (the diagnostic was a loop name mismatch),  *)
(* seen (the positions the cursor has stepped over, in the order it did).  *)
(***************************************************************************)
StartState(toks) ==
    [toks |-> toks, pos |-> 1, nx |-> 1, freed |-> <<>>,
     err |-> 0, errpos |-> 0, errname |-> FALSE, seen |-> <<>>]

\* The cursor steps over the current token.
Step(st) == [st EXCEPT !.pos = @ + 1, !.seen = Append(@, st.pos)]

peekToken(st, type) == st.toks[st.pos].type = type

peekAny(st, types) == st.toks[st.pos].type \in types

\* An acceptToken that steps over the current token whatever its type.
acceptToken_Always(st, type) == Step(st)

\* acceptToken: the state after the call; the call returned peekToken(st, type).
acceptToken(st, type) ==
    IF peekToken(st, type) THEN Step(st) ELSE st

(***************************************************************************)
(* A parse function in progress is a record c: ok (no error so far), st,   *)
(* built (the nodes it has built and still owns).                          *)
(***************************************************************************)
Begin(st) == [ok |-> TRUE, st |-> st, built |-> <<>>]

\* A failing parse function that releases nothing.
Unwind_Leaks(c, st) == [ok |-> FALSE, built |-> <<>>, st |-> st]

\* Release what a failing parse function has built so far.
Unwind(c, st) ==
    [ok |-> FALSE, built |-> <<>>,
     st |-> [st EXCEPT !.freed = @ \o deleteNodes(c.built)]]

\* An error detected here: one diagnostic, then unwind.
Error(c) ==
    Unwind(c, [c.st EXCEPT !.err = @ + 1, !.errpos = c.st.pos])

\* The token must be of this type.
Expect(c, type) ==
    IF ~c.ok THEN c
    ELSE IF peekToken(c.st, type) THEN [c EXCEPT !.st = acceptToken(c.st, type)]
    ELSE Error(c)

\* The result r of a sub-parser: its node is now owned here, or its failure
\* fails this function too.
Push(c, r) ==
    IF IsNull(r.node) THEN Unwind(c, r.st)
    ELSE [ok |-> TRUE, st |-> r.st, built |-> Append(c.built, r.node)]

\* An optional part that is absent.
Absent(c) == IF ~c.ok THEN c ELSE [c EXCEPT !.built = Append(@, Null)]

\* The function's return: the created node, or null.
Created(c, node) ==
    IF c.ok THEN [st |-> [c.st EXCEPT !.nx = @ + 1], node |-> node]
    ELSE [st |-> c.st, node |-> Null]

Failed(c) == [st |-> c.st, node |-> Null]

(***************************************************************************)
(* Leaf parsers                                                            *)
(***************************************************************************)
ConstantTokens == {"TT_BOOLEAN", "TT_INTEGER", "TT_FLOAT", "TT_STRING"}

ConstantKind(type) ==
    CASE type = "TT_BOOLEAN" -> "CT_BOOLEAN"
      [] type = "TT_INTEGER" -> "CT_INTEGER"
      [] type = "TT_FLOAT" -> "CT_FLOAT"
      [] type = "TT_STRING" -> "CT_STRING"

TypeTokens == {"TT_NOOB", "TT_TROOF", "TT_NUMBR", "TT_NUMBAR", "TT_YARN"}

TypeKind(type) ==
    CASE type = "TT_NOOB" -> "CT_NIL"
      [] type = "TT_TROOF" -> "CT_BOOLEAN"
      [] type = "TT_NUMBR" -> "CT_INTEGER"
      [] type = "TT_NUMBAR" -> "CT_FLOAT"
      [] type = "TT_YARN" -> "CT_STRING"

parseTypeNode(st) ==
    LET c == Begin(st)
    IN  IF peekAny(st, TypeTokens)
        THEN Created([c EXCEPT !.st = Step(@)],
                     [kind |-> "TypeNode", id |-> st.nx, first |-> st.pos,
                      last |-> st.pos, type |-> TypeKind(st.toks[st.pos].type)])
        ELSE Failed(Error(c))

UnaryOps == {"TT_NOT"}
BinaryOps == {"TT_SUMOF", "TT_DIFFOF", "TT_PRODUKTOF", "TT_QUOSHUNTOF",
              "TT_MODOF", "TT_BIGGROF", "TT_SMALLROF", "TT_BOTHOF",
              "TT_EITHEROF", "TT_WONOF", "TT_BOTHSAEM", "TT_DIFFRINT"}
NaryOps == {"TT_ALLOF", "TT_ANYOF", "TT_SMOOSH"}

OpKind(type) ==
    CASE type = "TT_SUMOF" -> "OP_ADD"
      [] type = "TT_DIFFOF" -> "OP_SUB"
      [] type = "TT_PRODUKTOF" -> "OP_MULT"
      [] type = "TT_QUOSHUNTOF" -> "OP_DIV"
      [] type = "TT_MODOF" -> "OP_MOD"
      [] type = "TT_BIGGROF" -> "OP_MAX"
      [] type = "TT_SMALLROF" -> "OP_MIN"
      [] type \in {"TT_BOTHOF", "TT_ALLOF"} -> "OP_AND"
      [] type \in {"TT_EITHEROF", "TT_ANYOF"} -> "OP_OR"
      [] type = "TT_WONOF" -> "OP_XOR"
      [] type = "TT_NOT" -> "OP_NOT"
      [] type = "TT_BOTHSAEM" -> "OP_EQ"
      [] type = "TT_DIFFRINT" -> "OP_NEQ"
      [] type = "TT_SMOOSH" -> "OP_CAT"

(***************************************************************************)
(* Node lists.  A list is created empty and grows by one node per add.     *)
(***************************************************************************)
\* create*NodeList: a new empty list, owned by the function in progress.
NewList(c, kind) ==
    IF ~c.ok THEN c
    ELSE [c EXCEPT !.built = Append(@, [kind |-> kind, id |-> c.st.nx,
                                        items |-> <<>>]),
                   !.st.nx = @ + 1]

\* add*Node: the sub-parser's node goes to the end of the list built[i].
AddTo(c, i, r) ==
    IF IsNull(r.node) THEN Unwind(c, r.st)
    ELSE [ok |-> TRUE, st |-> r.st,
          built |-> [c.built EXCEPT ![i].items = Append(@, r.node)]]

\* The current token, already peeked, is accepted.
Advance(c) == IF ~c.ok THEN c ELSE [c EXCEPT !.st = Step(@)]

\* An optional token: accepted when present.
Optional(c, type) ==
    IF ~c.ok THEN c ELSE [c EXCEPT !.st = acceptToken(c.st, type)]

(***************************************************************************)
(* Identifiers and expressions                                             *)
(***************************************************************************)
RECURSIVE parseIdentifierNode(_)
RECURSIVE parseExprNode(_)
RECURSIVE parseCastExprNode(_)
RECURSIVE parseIdentifierExprNode(_)
RECURSIVE parseFuncCallExprNode(_)
RECURSIVE parseOpExprNode(_)
RECURSIVE FunctionArg(_, _)
RECURSIVE NaryOpArg(_, _)
RECURSIVE Slot(_)

Ident(c) == IF c.ok THEN Push(c, parseIdentifierNode(c.st)) ELSE c
Expr(c) == IF c.ok THEN Push(c, parseExprNode(c.st)) ELSE c
Type(c) == IF c.ok THEN Push(c, parseTypeNode(c.st)) ELSE c
ExprInto(c, i) == IF c.ok THEN AddTo(c, i, parseExprNode(c.st)) ELSE c
IdentInto(c, i) == IF c.ok THEN AddTo(c, i, parseIdentifierNode(c.st)) ELSE c

\* The slot suffix of an identifier: 'Z and the identifier of the slot.
Slot(c) ==
    IF c.ok /\ peekToken(c.st, "TT_APOSTROPHEZ") THEN Ident(Advance(c))
    ELSE Absent(c)

\* The identifier parsed from st on: built[1] is the expression of an indirect
\* identifier, built[2] the slot.
createIdentifierNode(c, st) ==
    IF c.ok
    THEN Created(c, [kind |-> "IdentifierNode", id |-> c.st.nx,
                     first |-> st.pos, last |-> c.st.pos - 1,
                     type |-> IF IsNull(c.built[1]) THEN "IT_DIRECT"
                              ELSE "IT_INDIRECT",
                     name |-> IF IsNull(c.built[1])
                              THEN st.toks[st.pos].image ELSE "",
                     expr |-> c.built[1], slot |-> c.built[2]])
    ELSE Failed(c)

\* IdentifierNode ::= Identifier | TT_SRS ExprNode
parseIdentifierNode(st) ==
    createIdentifierNode(
        Slot(IF peekToken(st, "TT_IDENTIFIER") THEN Absent(Advance(Begin(st)))
             ELSE IF peekToken(st, "TT_SRS") THEN Expr(Advance(Begin(st)))
             ELSE Error(Begin(st))),
        st)

\* ConstantNode ::= Boolean | Integer | Float | String
parseConstantNode(st) ==
    IF peekAny(st, ConstantTokens)
    THEN Created(Advance(Begin(st)),
                 [kind |-> "ET_CONSTANT", id |-> st.nx, first |-> st.pos,
                  last |-> st.pos,
                  type |-> ConstantKind(st.toks[st.pos].type),
                  data |-> st.toks[st.pos].image])
    ELSE Failed(Error(Begin(st)))

parseConstantExprNode(st) == parseConstantNode(st)

createCastExprNode(c, st) ==
    IF c.ok
    THEN Created(c, [kind |-> "ET_CAST", id |-> c.st.nx, first |-> st.pos,
                     last |-> c.st.pos - 1, target |-> c.built[1],
                     newtype |-> c.built[2]])
    ELSE Failed(c)

\* CastExprNode ::= TT_MAEK ExprNode TT_A TypeNode
parseCastExprNode(st) ==
    createCastExprNode(
        Type(Expect(Expr(Expect(Begin(st), "TT_MAEK")), "TT_A")), st)

\* createExprNode(ET_IDENTIFIER, ...)
createIdentifierExprNode(c, st) ==
    IF c.ok
    THEN Created(c, [kind |-> "ET_IDENTIFIER", id |-> c.st.nx,
                     first |-> st.pos, last |-> c.st.pos - 1,
                     ident |-> c.built[1]])
    ELSE Failed(c)

parseIdentifierExprNode(st) == createIdentifierExprNode(Ident(Begin(st)), st)

\* FunctionArg ::= TT_ANYR <argument>, repeated; the arguments go to built[i].
FunctionArg(c, i) ==
    IF c.ok /\ peekToken(c.st, "TT_ANYR")
    THEN FunctionArg(ExprInto(Advance(c), i), i)
    ELSE c

\* FunctionArgs ::= TT_YR <argument> FunctionArg *, for the arguments of a call.
CallArgs(c, i) ==
    IF c.ok /\ peekToken(c.st, "TT_YR")
    THEN FunctionArg(ExprInto(Advance(c), i), i)
    ELSE c

createFuncCallExprNode(c, st) ==
    IF c.ok
    THEN Created(c, [kind |-> "ET_FUNCCALL", id |-> c.st.nx,
                     first |-> st.pos, last |-> c.st.pos - 1,
                     scope |-> c.built[1], name |-> c.built[2],
                     args |-> c.built[3]])
    ELSE Failed(c)

\* FuncCallExprNode ::= IdentifierNode TT_IZ IdentifierNode FunctionArgs ? TT_MKAY
parseFuncCallExprNode(st) ==
    createFuncCallExprNode(
        Expect(CallArgs(NewList(Ident(Expect(Ident(Begin(st)), "TT_IZ")),
                                "ExprNodeList"), 3),
               "TT_MKAY"),
        st)

\* NaryOpArg ::= TT_AN ? ExprNode, repeated until TT_MKAY is the current token.
NaryOpArg(c, i) ==
    IF c.ok /\ ~peekToken(c.st, "TT_MKAY")
    THEN NaryOpArg(ExprInto(Optional(c, "TT_AN"), i), i)
    ELSE c

\* UnaryOp ::= UnaryOpType ExprNode
UnaryOp(c) == ExprInto(c, 1)

\* A binary operator that takes a TT_MKAY after its operands.
BinaryOp_TakesMkay(c) ==
    Optional(ExprInto(Optional(ExprInto(c, 1), "TT_AN"), 1), "TT_MKAY")

\* BinaryOp ::= BinaryOpType ExprNode TT_AN ? ExprNode
BinaryOp(c) == ExprInto(Optional(ExprInto(c, 1), "TT_AN"), 1)

\* NaryOp ::= NaryOpType NaryOpArgs TT_MKAY;  NaryOpArgs ::= ExprNode NaryOpArg +
NaryOp(c) ==
    Expect(NaryOpArg(ExprInto(Optional(ExprInto(c, 1), "TT_AN"), 1), 1),
           "TT_MKAY")

\* The operands of the operator op, into the list built[1].
Operands(c, op) ==
    IF op \in UnaryOps THEN UnaryOp(c)
    ELSE IF op \in BinaryOps THEN BinaryOp(c)
    ELSE IF op \in NaryOps THEN NaryOp(c)
    ELSE Error(c)

\* The operation whose operator is the token at st.
createOpExprNode(c, st) ==
    IF c.ok
    THEN Created(c, [kind |-> "ET_OP", id |-> c.st.nx, first |-> st.pos,
                     last |-> c.st.pos - 1,
                     type |-> OpKind(st.toks[st.pos].type),
                     args |-> c.built[1]])
    ELSE Failed(c)

\* OpExprNode ::= UnaryOp | BinaryOp | NaryOp
parseOpExprNode(st) ==
    createOpExprNode(
        Operands(NewList(Advance(Begin(st)), "ExprNodeList"),
                 st.toks[st.pos].type),
        st)

\* A look-ahead that parses the identifier with the parser's own cursor and
\* moves the cursor back to where the identifier starts.
LookedAhead_SameCursor(st, r) ==
    [r.st EXCEPT !.pos = st.pos, !.freed = @ \o deleteNode(r.node)]

\* The look-ahead past an identifier: the identifier is parsed on a copy of the
\* cursor and released; the state returned has the cursor where it was, and
\* has stepped over nothing.  r is the result of parseIdentifierNode(st).
LookedAhead(st, r) ==
    [r.st EXCEPT !.pos = st.pos, !.seen = st.seen,
                 !.freed = @ \o deleteNode(r.node)]

\* An expression that starts with an identifier: a function call when TT_IZ
\* follows the identifier, the identifier otherwise.
IdentifierOrCall(st, r) ==
    IF IsNull(r.node) THEN r
    ELSE IF peekToken(r.st, "TT_IZ")
    THEN parseFuncCallExprNode(LookedAhead(st, r))
    ELSE parseIdentifierExprNode(LookedAhead(st, r))

\* ExprNode ::= CastExprNode | ConstantNode | IdentifierNode | FuncCallExprNode
\*              | OpExprNode | ImplicitVariable
parseExprNode(st) ==
    IF peekToken(st, "TT_MAEK") THEN parseCastExprNode(st)
    ELSE IF peekAny(st, ConstantTokens) THEN parseConstantExprNode(st)
    ELSE IF peekAny(st, {"TT_IDENTIFIER", "TT_SRS"})
    THEN IdentifierOrCall(st, parseIdentifierNode(st))
    ELSE IF peekAny(st, UnaryOps \cup BinaryOps \cup NaryOps)
    THEN parseOpExprNode(st)
    ELSE IF peekToken(st, "TT_IT")
    THEN Created(Advance(Begin(st)),
                 [kind |-> "ET_IMPVAR", id |-> st.nx, first |-> st.pos,
                  last |-> st.pos])
    ELSE Failed(Error(Begin(st)))

(***************************************************************************)
(* Statements                                                              *)
(***************************************************************************)
RECURSIVE parseStmtNode(_)
RECURSIVE parseBlockNode(_)
RECURSIVE FunctionArgName(_, _)
RECURSIVE PrintArg(_, _)
RECURSIVE ElseIf(_)
RECURSIVE Case(_)
RECURSIVE StmtList(_)

Block(c) == IF c.ok THEN Push(c, parseBlockNode(c.st)) ELSE c
BlockInto(c, i) == IF c.ok THEN AddTo(c, i, parseBlockNode(c.st)) ELSE c
StmtInto(c, i) == IF c.ok THEN AddTo(c, i, parseStmtNode(c.st)) ELSE c

createCastStmtNode(c, st) ==
    IF c.ok
    THEN Created(c, [kind |-> "ST_CAST", id |-> c.st.nx, first |-> st.pos,
                     last |-> c.st.pos - 1, target |-> c.built[1],
                     newtype |-> c.built[2]])
    ELSE Failed(c)

\* CastStmtNode ::= IdentifierNode TT_ISNOWA TypeNode TT_NEWLINE
parseCastStmtNode(st) ==
    createCastStmtNode(
        Expect(Type(Expect(Ident(Begin(st)), "TT_ISNOWA")), "TT_NEWLINE"), st)

\* The expressions of a print statement, up to TT_BANG or TT_NEWLINE.
PrintArg(c, i) ==
    IF c.ok /\ ~peekAny(c.st, {"TT_BANG", "TT_NEWLINE"})
    THEN PrintArg(ExprInto(c, i), i)
    ELSE c

createPrintStmtNode(c, st, nonl) ==
    IF c.ok
    THEN Created(c, [kind |-> "ST_PRINT", id |-> c.st.nx, first |-> st.pos,
                     last |-> c.st.pos - 1, args |-> c.built[1],
                     nonl |-> nonl])
    ELSE Failed(c)

\* A print statement that accepts the TT_BANG and does not record it.
PrintEnd_NoFlag(c, st) ==
    createPrintStmtNode(Expect(Optional(c, "TT_BANG"), "TT_NEWLINE"), st, FALSE)

\* TT_BANG ? TT_NEWLINE after the arguments c has: nonl is whether the TT_BANG
\* was accepted.
PrintEnd(c, st) ==
    createPrintStmtNode(Expect(Optional(c, "TT_BANG"), "TT_NEWLINE"), st,
                        c.ok /\ peekToken(c.st, "TT_BANG"))

\* PrintStmtNode ::= TT_VISIBLE ExprNodeList TT_BANG ? TT_NEWLINE
parsePrintStmtNode(st) ==
    PrintEnd(PrintArg(ExprInto(NewList(Expect(Begin(st), "TT_VISIBLE"),
                                       "ExprNodeList"), 1), 1),
             st)

\* An input statement with the type tag of a deallocation.
createInputStmtNode_AsDeallocation(c, st) ==
    IF c.ok
    THEN Created(c, [kind |-> "ST_DEALLOCATION", id |-> c.st.nx,
                     first |-> st.pos, last |-> c.st.pos - 1,
                     target |-> c.built[1]])
    ELSE Failed(c)

createInputStmtNode(c, st) ==
    IF c.ok
    THEN Created(c, [kind |-> "ST_INPUT", id |-> c.st.nx, first |-> st.pos,
                     last |-> c.st.pos - 1, target |-> c.built[1]])
    ELSE Failed(c)

\* InputStmtNode ::= TT_GIMMEH IdentifierNode TT_NEWLINE
parseInputStmtNode(st) ==
    createInputStmtNode(
        Expect(Ident(Expect(Begin(st), "TT_GIMMEH")), "TT_NEWLINE"), st)

createAssignmentStmtNode(c, st) ==
    IF c.ok
    THEN Created(c, [kind |-> "ST_ASSIGNMENT", id |-> c.st.nx,
                     first |-> st.pos, last |-> c.st.pos - 1,
                     target |-> c.built[1], expr |-> c.built[2]])
    ELSE Failed(c)

\* AssignmentStmtNode ::= IdentifierNode TT_R ExprNode TT_NEWLINE
parseAssignmentStmtNode(st) ==
    createAssignmentStmtNode(
        Expect(Expr(Expect(Ident(Begin(st)), "TT_R")), "TT_NEWLINE"), st)

\* An initialization that stores the type of ITZ A in the expr field.
Initialization_TypeAsExpr(c) ==
    IF ~c.ok THEN c
    ELSE IF peekToken(c.st, "TT_ITZ") THEN Absent(Absent(Expr(Advance(c))))
    ELSE IF peekToken(c.st, "TT_ITZA") THEN Absent(Absent(Type(Advance(c))))
    ELSE IF peekToken(c.st, "TT_ITZLIEKA")
    THEN Ident(Absent(Absent(Advance(c))))
    ELSE Absent(Absent(Absent(c)))

\* Initialization ::= TT_ITZ ExprNode | TT_ITZA TypeNode | TT_ITZLIEKA IdentifierNode
\* and its absence: the three initializer fields, in the order expr, type, parent.
Initialization(c) ==
    IF ~c.ok THEN c
    ELSE IF peekToken(c.st, "TT_ITZ") THEN Absent(Absent(Expr(Advance(c))))
    ELSE IF peekToken(c.st, "TT_ITZA") THEN Absent(Type(Absent(Advance(c))))
    ELSE IF peekToken(c.st, "TT_ITZLIEKA")
    THEN Ident(Absent(Absent(Advance(c))))
    ELSE Absent(Absent(Absent(c)))

createDeclarationStmtNode(c, st) ==
    IF c.ok
    THEN Created(c, [kind |-> "ST_DECLARATION", id |-> c.st.nx,
                     first |-> st.pos, last |-> c.st.pos - 1,
                     scope |-> c.built[1], target |-> c.built[2],
                     expr |-> c.built[3], type |-> c.built[4],
                     parent |-> c.built[5]])
    ELSE Failed(c)

\* DeclarationStmtNode ::= IdentifierNode TT_HASA IdentifierNode Initialization ?
\*                         TT_NEWLINE
parseDeclarationStmtNode(st) ==
    createDeclarationStmtNode(
        Expect(Initialization(Ident(Expect(Ident(Begin(st)), "TT_HASA"))),
               "TT_NEWLINE"),
        st)

\* An ElseIf that adds its guard to the list of blocks.
ElseIf_OneList(c) ==
    IF c.ok /\ peekToken(c.st, "TT_MEBBE")
    THEN ElseIf(BlockInto(Expect(ExprInto(Advance(c), 3), "TT_NEWLINE"), 3))
    ELSE c

\* ElseIf ::= TT_MEBBE ExprNode TT_NEWLINE BlockNode, repeated; guards are
\* built[2], blocks are built[3].
ElseIf(c) ==
    IF c.ok /\ peekToken(c.st, "TT_MEBBE")
    THEN ElseIf(BlockInto(Expect(ExprInto(Advance(c), 2), "TT_NEWLINE"), 3))
    ELSE c

\* Else ::= TT_NOWAI TT_NEWLINE BlockNode
Else(c) ==
    IF c.ok /\ peekToken(c.st, "TT_NOWAI")
    THEN Block(Expect(Advance(c), "TT_NEWLINE"))
    ELSE Absent(c)

createIfThenElseStmtNode(c, st) ==
    IF c.ok
    THEN Created(c, [kind |-> "ST_IFTHENELSE", id |-> c.st.nx,
                     first |-> st.pos, last |-> c.st.pos - 1,
                     yes |-> c.built[1], no |-> c.built[4],
                     guards |-> c.built[2], blocks |-> c.built[3]])
    ELSE Failed(c)

\* IfThenElseStmtNode ::= TT_ORLY TT_NEWLINE TT_YARLY TT_NEWLINE BlockNode
\*                        ElseIf * Else ? TT_OIC TT_NEWLINE
parseIfThenElseStmtNode(st) ==
    createIfThenElseStmtNode(
        Expect(Expect(Else(ElseIf(
            NewList(NewList(
                Block(Expect(Expect(Expect(Expect(Begin(st), "TT_ORLY"),
                                           "TT_NEWLINE"), "TT_YARLY"),
                             "TT_NEWLINE")),
                "ExprNodeList"), "BlockNodeList"))),
            "TT_OIC"), "TT_NEWLINE"),
        st)

\* Case ::= TT_OMG ExprNode TT_NEWLINE BlockNode, repeated; guards are built[1],
\* blocks are built[2].
Case(c) ==
    IF c.ok /\ peekToken(c.st, "TT_OMG")
    THEN Case(BlockInto(Expect(ExprInto(Advance(c), 1), "TT_NEWLINE"), 2))
    ELSE c

\* DefaultCase ::= TT_OMGWTF TT_NEWLINE BlockNode
DefaultCase(c) ==
    IF c.ok /\ peekToken(c.st, "TT_OMGWTF")
    THEN Block(Expect(Advance(c), "TT_NEWLINE"))
    ELSE Absent(c)

\* Case *: a switch without a case.
Cases_Optional(c) == Case(c)

\* Case +: the first case is required.
Cases(c) ==
    Case(BlockInto(Expect(ExprInto(Expect(c, "TT_OMG"), 1), "TT_NEWLINE"), 2))

createSwitchStmtNode(c, st) ==
    IF c.ok
    THEN Created(c, [kind |-> "ST_SWITCH", id |-> c.st.nx,
                     first |-> st.pos, last |-> c.st.pos - 1,
                     guards |-> c.built[1], blocks |-> c.built[2],
                     def |-> c.built[3]])
    ELSE Failed(c)

\* SwitchStmtNode ::= TT_WTF TT_NEWLINE Case + DefaultCase ? TT_OIC TT_NEWLINE
parseSwitchStmtNode(st) ==
    createSwitchStmtNode(
        Expect(Expect(DefaultCase(Cases(
            NewList(NewList(Expect(Expect(Begin(st), "TT_WTF"), "TT_NEWLINE"),
                            "ExprNodeList"), "BlockNodeList"))),
            "TT_OIC"), "TT_NEWLINE"),
        st)

\* createStmtNode(ST_BREAK, NULL)
createBreakStmtNode(c, st) ==
    IF c.ok
    THEN Created(c, [kind |-> "ST_BREAK", id |-> c.st.nx, first |-> st.pos,
                     last |-> c.st.pos - 1])
    ELSE Failed(c)

\* BreakStmt ::= TT_GTFO TT_NEWLINE
parseBreakStmtNode(st) ==
    createBreakStmtNode(Expect(Expect(Begin(st), "TT_GTFO"), "TT_NEWLINE"), st)

createReturnStmtNode(c, st) ==
    IF c.ok
    THEN Created(c, [kind |-> "ST_RETURN", id |-> c.st.nx, first |-> st.pos,
                     last |-> c.st.pos - 1, value |-> c.built[1]])
    ELSE Failed(c)

\* ReturnStmtNode ::= TT_FOUNDYR ExprNode TT_NEWLINE
parseReturnStmtNode(st) ==
    createReturnStmtNode(
        Expect(Expr(Expect(Begin(st), "TT_FOUNDYR")), "TT_NEWLINE"), st)

\* The update of UPPIN or NERFIN: an operation on the loop variable.
createLoopUpdateOpNode(c, st) ==
    IF c.ok
    THEN Created(c, [kind |-> "ET_OP", id |-> c.st.nx, first |-> st.pos,
                     last |-> c.st.pos - 1,
                     type |-> IF peekToken(st, "TT_UPPIN") THEN "OP_ADD"
                              ELSE "OP_SUB",
                     args |-> c.built[1]])
    ELSE Failed(c)

\* LoopUpdateOp ::= TT_UPPIN | TT_NERFIN | UnaryFunction
\* The update expression: an operation for UPPIN and NERFIN, a call of the named
\* function (without a scope) otherwise.  Its operands (the loop variable) are
\* not modelled.
LoopUpdateOp(st) ==
    IF peekToken(st, "TT_IDENTIFIER")
    THEN createFuncCallExprNode(
             NewList(Ident(Absent(Begin(st))), "ExprNodeList"), st)
    ELSE createLoopUpdateOpNode(
             NewList(Advance(Begin(st)), "ExprNodeList"), st)

\* LoopUpdate ::= LoopUpdateOp TT_YR IdentifierNode; fields update and var.
LoopUpdate(c) ==
    IF ~c.ok THEN c
    ELSE IF peekAny(c.st, {"TT_UPPIN", "TT_NERFIN", "TT_IDENTIFIER"})
    THEN Ident(Expect(Push(c, LoopUpdateOp(c.st)), "TT_YR"))
    ELSE Absent(Absent(c))

\* LoopGuard ::= TT_TIL ExprNode | TT_WILE ExprNode
LoopGuard(c) ==
    IF ~c.ok THEN c
    ELSE IF peekAny(c.st, {"TT_TIL", "TT_WILE"}) THEN Expr(Advance(c))
    ELSE Absent(c)

\* Two identifiers are the same text: the same tokens, one for one.
SameName(toks, a, b) ==
    /\ a.last - a.first = b.last - b.first
    /\ \A k \in 0 .. (a.last - a.first) : toks[a.first + k] = toks[b.first + k]

\* Loop names that are not compared.
LoopNames_AnyName(c) ==
    IF ~c.ok THEN c
    ELSE [c EXCEPT !.st.freed = @ \o deleteNode(c.built[6]),
                   !.built = SubSeq(@, 1, 5)]

\* The name after TT_IMOUTTAYR (built[6]) must be the name after TT_IMINYR
\* (built[1]); the struct keeps one name, the second identifier is released.
LoopNames(c) ==
    IF ~c.ok THEN c
    ELSE IF SameName(c.st.toks, c.built[1], c.built[6])
    THEN [c EXCEPT !.st.freed = @ \o deleteNode(c.built[6]),
                   !.built = SubSeq(@, 1, 5)]
    ELSE Unwind(c, [c.st EXCEPT !.err = @ + 1, !.errpos = c.built[6].first,
                                !.errname = TRUE])

createLoopStmtNode(c, st) ==
    IF c.ok
    THEN Created(c, [kind |-> "ST_LOOP", id |-> c.st.nx, first |-> st.pos,
                     last |-> c.st.pos - 1, name |-> c.built[1],
                     update |-> c.built[2], var |-> c.built[3],
                     guard |-> c.built[4], body |-> c.built[5]])
    ELSE Failed(c)

\* LoopStmtNode ::= TT_IMINYR IdentifierNode LoopUpdate ? LoopGuard ? TT_NEWLINE
\*                  BlockNode TT_IMOUTTAYR IdentifierNode TT_NEWLINE
parseLoopStmtNode(st) ==
    createLoopStmtNode(
        Expect(LoopNames(Ident(Expect(Block(Expect(
            LoopGuard(LoopUpdate(Ident(Expect(Begin(st), "TT_IMINYR")))),
            "TT_NEWLINE")), "TT_IMOUTTAYR"))), "TT_NEWLINE"),
        st)

createDeallocationStmtNode(c, st) ==
    IF c.ok
    THEN Created(c, [kind |-> "ST_DEALLOCATION", id |-> c.st.nx,
                     first |-> st.pos, last |-> c.st.pos - 1,
                     target |-> c.built[1]])
    ELSE Failed(c)

\* DeallocationStmtNode ::= IdentifierNode TT_RNOOB
parseDeallocationStmtNode(st) ==
    createDeallocationStmtNode(Expect(Ident(Begin(st)), "TT_RNOOB"), st)

\* FunctionArg ::= TT_ANYR IdentifierNode, repeated; the names go to built[i].
FunctionArgName(c, i) ==
    IF c.ok /\ peekToken(c.st, "TT_ANYR")
    THEN FunctionArgName(IdentInto(Advance(c), i), i)
    ELSE c

\* FunctionArgs ::= TT_YR IdentifierNode FunctionArg *
FunctionArgs(c, i) ==
    IF c.ok /\ peekToken(c.st, "TT_YR")
    THEN FunctionArgName(IdentInto(Advance(c), i), i)
    ELSE c

createFuncDefStmtNode(c, st) ==
    IF c.ok
    THEN Created(c, [kind |-> "ST_FUNCDEF", id |-> c.st.nx,
                     first |-> st.pos, last |-> c.st.pos - 1,
                     scope |-> c.built[1], name |-> c.built[2],
                     args |-> c.built[3], body |-> c.built[4]])
    ELSE Failed(c)

\* FuncDefStmtNode ::= TT_HOWIZ IdentifierNode IdentifierNode FunctionArgs ?
\*                     TT_NEWLINE BlockNode TT_IFUSAYSO TT_NEWLINE
parseFuncDefStmtNode(st) ==
    createFuncDefStmtNode(
        Expect(Expect(Block(Expect(FunctionArgs(
            NewList(Ident(Ident(Expect(Begin(st), "TT_HOWIZ"))),
                    "IdentifierNodeList"), 3),
            "TT_NEWLINE")), "TT_IFUSAYSO"), "TT_NEWLINE"),
        st)

\* AltArrayInheritance ::= TT_IMLIEK IdentifierNode
AltArrayInheritance(c) ==
    IF c.ok /\ peekToken(c.st, "TT_IMLIEK") THEN Ident(Advance(c))
    ELSE Absent(c)

createAltArrayDefStmtNode(c, st) ==
    IF c.ok
    THEN Created(c, [kind |-> "ST_ALTARRAYDEF", id |-> c.st.nx,
                     first |-> st.pos, last |-> c.st.pos - 1,
                     name |-> c.built[1], parent |-> c.built[2],
                     body |-> c.built[3]])
    ELSE Failed(c)

\* AltArrayDefStmtNode ::= TT_OHAIIM IdentifierNode AltArrayInheritance ?
\*                         TT_NEWLINE BlockNode TT_KTHX TT_NEWLINE
parseAltArrayDefStmtNode(st) ==
    createAltArrayDefStmtNode(
        Expect(Expect(Block(Expect(
            AltArrayInheritance(Ident(Expect(Begin(st), "TT_OHAIIM"))),
            "TT_NEWLINE")), "TT_KTHX"), "TT_NEWLINE"),
        st)

\* createStmtNode(ST_EXPR, ...)
createExprStmtNode(c, st) ==
    IF c.ok
    THEN Created(c, [kind |-> "ST_EXPR", id |-> c.st.nx, first |-> st.pos,
                     last |-> c.st.pos - 1, expr |-> c.built[1]])
    ELSE Failed(c)

\* ExprStmt ::= ExprNode TT_NEWLINE
parseExprStmtNode(st) ==
    createExprStmtNode(Expect(Expr(Begin(st)), "TT_NEWLINE"), st)

\* A statement that starts with an identifier is told apart by the token after
\* the identifier; r is the result of parseIdentifierNode(st).
IdentifierStmt(st, r) ==
    IF IsNull(r.node) THEN r
    ELSE IF peekToken(r.st, "TT_ISNOWA")
    THEN parseCastStmtNode(LookedAhead(st, r))
    ELSE IF peekToken(r.st, "TT_R")
    THEN parseAssignmentStmtNode(LookedAhead(st, r))
    ELSE IF peekToken(r.st, "TT_HASA")
    THEN parseDeclarationStmtNode(LookedAhead(st, r))
    ELSE IF peekToken(r.st, "TT_RNOOB")
    THEN parseDeallocationStmtNode(LookedAhead(st, r))
    ELSE parseExprStmtNode(LookedAhead(st, r))

\* StmtNode ::= CastStmtNode | PrintStmtNode | ... | AltArrayDefStmtNode
parseStmtNode(st) ==
    IF peekAny(st, {"TT_IDENTIFIER", "TT_SRS"})
    THEN IdentifierStmt(st, parseIdentifierNode(st))
    ELSE IF peekToken(st, "TT_VISIBLE") THEN parsePrintStmtNode(st)
    ELSE IF peekToken(st, "TT_GIMMEH") THEN parseInputStmtNode(st)
    ELSE IF peekToken(st, "TT_ORLY") THEN parseIfThenElseStmtNode(st)
    ELSE IF peekToken(st, "TT_WTF") THEN parseSwitchStmtNode(st)
    ELSE IF peekToken(st, "TT_GTFO") THEN parseBreakStmtNode(st)
    ELSE IF peekToken(st, "TT_FOUNDYR") THEN parseReturnStmtNode(st)
    ELSE IF peekToken(st, "TT_IMINYR") THEN parseLoopStmtNode(st)
    ELSE IF peekToken(st, "TT_HOWIZ") THEN parseFuncDefStmtNode(st)
    ELSE IF peekToken(st, "TT_OHAIIM") THEN parseAltArrayDefStmtNode(st)
    ELSE parseExprStmtNode(st)

\* The tokens that can follow a BlockNode in the grammar: a block ends at one.
BlockEnd == {"TT_EOF", "TT_MEBBE", "TT_NOWAI", "TT_OIC", "TT_OMG", "TT_OMGWTF",
             "TT_IMOUTTAYR", "TT_IFUSAYSO", "TT_KTHX"}

StmtList(c) ==
    IF c.ok /\ ~peekAny(c.st, BlockEnd) THEN StmtList(StmtInto(c, 1)) ELSE c

createBlockNode(c, st) ==
    IF c.ok
    THEN Created(c, [kind |-> "BlockNode", id |-> c.st.nx, first |-> st.pos,
                     last |-> c.st.pos - 1, stmts |-> c.built[1]])
    ELSE Failed(c)

\* BlockNode ::= StmtNode *
parseBlockNode(st) ==
    createBlockNode(StmtList(NewList(Begin(st), "StmtNodeList")), st)

\* The version after TT_HAI: one token, of any value.
Version(c) ==
    IF ~c.ok THEN c
    ELSE IF peekToken(c.st, "TT_FLOAT") THEN Advance(c)
    ELSE Error(c)

createMainNode(c, st) ==
    IF c.ok
    THEN Created(c, [kind |-> "MainNode", id |-> c.st.nx, first |-> st.pos,
                     last |-> c.st.pos - 1, block |-> c.built[1]])
    ELSE Failed(c)

\* A parseMainNode that reports what follows the block and returns the tree.
parseMainNode_PartialTree(toks) ==
    LET st == StartState(toks)
        c == Block(Expect(Version(Expect(Begin(st), "TT_HAI")), "TT_NEWLINE"))
        e == IF peekToken(c.st, "TT_EOF") THEN c.st
             ELSE [c.st EXCEPT !.err = @ + 1, !.errpos = c.st.pos]
    IN  IF c.ok
        THEN [st |-> [e EXCEPT !.nx = @ + 1],
              node |-> [kind |-> "MainNode", id |-> e.nx, first |-> st.pos,
                        last |-> e.pos - 1, block |-> c.built[1]]]
        ELSE Failed(c)

\* MainNode ::= TT_HAI version TT_NEWLINE BlockNode $
parseMainNode(toks) ==
    createMainNode(
        Expect(Block(Expect(Version(Expect(Begin(StartState(toks)), "TT_HAI")),
                            "TT_NEWLINE")), "TT_EOF"),
        StartState(toks))

(***************************************************************************)
(* The program: the scanner hands over a token stream that ends with the   *)
(* end-of-file token, parseMainNode parses it, and the caller deletes the  *)
(* tree it got.  The streams are the sequences over one of a few           *)
(* vocabularies: the streams over the program vocabulary, and the streams  *)
(* that start with the banner and go on over one of the others.  Past the  *)
(* banner a stream is not continued beyond the token the parser stops at.  *)
(***************************************************************************)
HAI == Kw("TT_HAI")
NEWLINE == Kw("TT_NEWLINE")
EOF == Kw("TT_EOF")
Number == Lit("TT_FLOAT", "1.2")
NameA == Lit("TT_IDENTIFIER", "A")
NameB == Lit("TT_IDENTIFIER", "B")

\* The banner every program starts with.
Banner == <<HAI, Number, NEWLINE>>

Vocabulary(v) ==
    CASE v = "program" ->
           {HAI, Number, NEWLINE, Kw("TT_KTHXBYE")}
      [] v = "loop" ->
           {NEWLINE, Kw("TT_IMINYR"), Kw("TT_IMOUTTAYR"), NameA, NameB}
      [] v = "loophead" ->
           {NEWLINE, Kw("TT_IMINYR"), Kw("TT_IMOUTTAYR"), NameA,
            Kw("TT_UPPIN"), Kw("TT_YR"), Kw("TT_TIL"), Kw("TT_WILE")}
      [] v = "if" ->
           {NEWLINE, Number, Kw("TT_ORLY"), Kw("TT_YARLY"), Kw("TT_MEBBE"),
            Kw("TT_NOWAI"), Kw("TT_OIC")}
      [] v = "switch" ->
           {NEWLINE, Number, Kw("TT_WTF"), Kw("TT_OMG"), Kw("TT_OMGWTF"),
            Kw("TT_OIC")}
      [] v = "declaration" ->
           {NEWLINE, Number, NameA, Kw("TT_HASA"), Kw("TT_ITZ"), Kw("TT_ITZA"),
            Kw("TT_ITZLIEKA"), Kw("TT_NUMBR")}
      [] v = "statement" ->
           {NEWLINE, Number, NameA, Kw("TT_R"), Kw("TT_RNOOB"),
            Kw("TT_ISNOWA"), Kw("TT_YARN"), Kw("TT_GTFO"), Kw("TT_GIMMEH"),
            Kw("TT_FOUNDYR")}
      [] v = "operator" ->
           {NEWLINE, Number, Kw("TT_ALLOF"), Kw("TT_SUMOF"), Kw("TT_NOT"),
            Kw("TT_AN"), Kw("TT_MKAY")}
      [] v = "call" ->
           {NEWLINE, NameA, Kw("TT_IZ"), Kw("TT_YR"), Kw("TT_ANYR"),
            Kw("TT_MKAY"), Kw("TT_SRS"), Kw("TT_APOSTROPHEZ"), Kw("TT_IT")}
      [] v = "definition" ->
           {NEWLINE, NameA, Kw("TT_HOWIZ"), Kw("TT_YR"), Kw("TT_ANYR"),
            Kw("TT_IFUSAYSO"), Kw("TT_OHAIIM"), Kw("TT_IMLIEK"),
            Kw("TT_KTHX"), Kw("TT_MAEK"), Kw("TT_A"), Kw("TT_TROOF")}
      [] v = "print" ->
           {NEWLINE, Number, NameA, Kw("TT_VISIBLE"), Kw("TT_BANG"),
            Kw("TT_NOT")}

Vocabularies == {"program", "loop", "loophead", "if", "switch", "declaration", "statement", "operator", "call", "definition", "print"}

\* The longest stream over each vocabulary, the end-of-file token not counted.
MaxLength(v) ==
    CASE v = "program" -> MaxProgram
      [] v = "loop" -> MaxLoop
      [] v = "loophead" -> MaxLoopHead
      [] v = "if" -> MaxIf
      [] v = "switch" -> MaxSwitch
      [] v = "declaration" -> MaxDeclaration
      [] v = "statement" -> MaxStatement
      [] v = "operator" -> MaxOperator
      [] v = "call" -> MaxCall
      [] v = "definition" -> MaxDefinition
      [] v = "print" -> MaxPrint

\* The parse r ended without a diagnostic, or with its diagnostic at pos.
StopsAt(r, pos) == r.st.err = 0 \/ r.st.errpos = pos

\* The parser has not stopped inside the tokens scanned so far: with the stream
\* ended here it succeeds, or it fails at the end-of-file token.
Viable(toks) == StopsAt(parseMainNode(Append(toks, EOF)), Len(toks) + 1)

\* The last call of a cursor primitive: none, during a parse.
NoCall == [op |-> "", type |-> "", ret |-> FALSE]

Init ==
    /\ vocab \in Vocabularies
    /\ tokens = IF vocab = "program" THEN <<>> ELSE Banner
    /\ phase = "scan"
    /\ viable = TRUE
    /\ root = Null
    /\ ps = StartState(<<>>)
    /\ call = NoCall

\* The scanner emits one more token.
Scan(t) ==
    /\ phase = "scan"
    /\ viable \/ vocab = "program"
    /\ Len(tokens) < MaxLength(vocab)
    /\ tokens' = Append(tokens, t)
    /\ viable' = Viable(tokens')
    /\ UNCHANGED <<vocab, phase, root, ps, call>>

\* The scanner ends the stream with the end-of-file token.
EndOfFile ==
    /\ phase = "scan"
    /\ tokens' = Append(tokens, EOF)
    /\ phase' = "ready"
    /\ UNCHANGED <<vocab, viable, root, ps, call>>

\* The caller takes what parseMainNode returned.
Receive(r) == root' = r.node /\ ps' = r.st

\* parseMainNode(tokens): the root it returns and the parser's final state.
ParseMain ==
    /\ phase = "ready"
    /\ Receive(parseMainNode(tokens))
    /\ phase' = "parsed"
    /\ UNCHANGED <<tokens, vocab, viable, call>>

\* deleteMainNode(root), by the caller that got a tree.
DeleteMain ==
    /\ phase = "parsed"
    /\ ~IsNull(root)
    /\ ps' = [ps EXCEPT !.freed = @ \o deleteMainNode(root)]
    /\ phase' = "deleted"
    /\ UNCHANGED <<tokens, vocab, viable, root, call>>

Next ==
    \/ \E t \in Vocabulary(vocab) : Scan(t)
    \/ EndOfFile
    \/ ParseMain
    \/ DeleteMain

Spec == Init /\ [][Next]_vars

(***************************************************************************)
(* The cursor primitives alone: any sequence of peekToken and acceptToken  *)
(* calls, for any token type, on a short stream that ends with the         *)
(* end-of-file token.  call is the last call, its argument and what it     *)
(* returned; ps.pos is the cursor.                                         *)
(***************************************************************************)
CursorTokens == {NEWLINE, NameA, Kw("TT_IZ")}

CursorTypes == {"TT_NEWLINE", "TT_IDENTIFIER", "TT_IZ", "TT_MKAY", "TT_EOF"}

CursorStreams ==
    {Append(s, EOF) : s \in UNION {[1 .. n -> CursorTokens] : n \in 0 .. MaxCursor}}

CursorInit ==
    /\ vocab = "cursor"
    /\ tokens \in CursorStreams
    /\ phase = "cursor"
    /\ viable = TRUE
    /\ root = Null
    /\ ps = StartState(tokens)
    /\ call = NoCall

\* peekToken(&tokens, type): the cursor is left alone.
PeekToken(type) ==
    /\ ps.pos <= Len(tokens)
    /\ call' = [op |-> "peekToken", type |-> type, ret |-> peekToken(ps, type)]
    /\ UNCHANGED <<tokens, vocab, phase, viable, root, ps>>

\* acceptToken(&tokens, type)
AcceptToken(type) ==
    /\ ps.pos <= Len(tokens)
    /\ call' = [op |-> "acceptToken", type |-> type, ret |-> peekToken(ps, type)]
    /\ ps' = acceptToken(ps, type)
    /\ UNCHANGED <<tokens, vocab, phase, viable, root>>

CursorNext ==
    \/ \E type \in CursorTypes : PeekToken(type)
    \/ \E type \in CursorTypes : AcceptToken(type)

CursorSpec == CursorInit /\ [][CursorNext]_vars

(***************************************************************************)
(* Properties                                                              *)
(***************************************************************************)
RECURSIVE Subtree(_)
RECURSIVE Subtrees(_)

\* The nodes of the tree under n, parents first.
Subtree(n) == IF IsNull(n) THEN <<>> ELSE <<n>> \o Subtrees(Children(n))

Subtrees(ns) ==
    IF Len(ns) = 0 THEN <<>> ELSE Subtree(Head(ns)) \o Subtrees(Tail(ns))

\* parseMainNode has returned.
Returned == phase \in {"parsed", "deleted"}

\* The nodes of the tree parseMainNode returned.
Tree == IF Returned THEN Subtree(root) ELSE <<>>

\* The nodes of the returned tree that are of one of these kinds.
TreeNodes(kinds) == {i \in DOMAIN Tree : Tree[i].kind \in kinds}

\* The ids released so far are these ids, each once.
ReleasedOnce(ids) ==
    /\ Len(ps.freed) = Cardinality(ids)
    /\ {ps.freed[i] : i \in DOMAIN ps.freed} = ids

\* C1: in the tree of a successful parse every loop statement starts with
\* IM IN YR and its name, and ends with IM OUTTA YR, the same name token for
\* token, and the NEWLINE; and a parse that met a closing name different from
\* the opening one returned no tree.
C1_LoopNameBalance ==
    /\ \A i \in TreeNodes({"ST_LOOP"}) :
          LET n == Tree[i]
              len == n.name.last - n.name.first + 1
              closer == n.last - len
          IN  /\ tokens[n.first].type = "TT_IMINYR"
              /\ n.name.first = n.first + 1
              /\ tokens[n.last].type = "TT_NEWLINE"
              /\ closer - 1 > n.name.last
              /\ tokens[closer - 1].type = "TT_IMOUTTAYR"
              /\ \A k \in 0 .. (len - 1) :
                    tokens[closer + k] = tokens[n.name.first + k]
    /\ Returned /\ ps.errname => IsNull(root)

\* A successful parse of a loop named A that holds a loop named B.
C1_Witness ==
    \E i \in TreeNodes({"ST_LOOP"}) :
       /\ Tree[i].name.name = "A"
       /\ \E j \in DOMAIN Tree[i].body.stmts.items :
             LET m == Tree[i].body.stmts.items[j]
             IN  m.kind = "ST_LOOP" /\ m.name.name = "B"

\* C2: whenever the parser emitted a diagnostic, parseMainNode returned a null
\* root.
C2_ErrorGivesNullRoot == Returned /\ ps.err > 0 => IsNull(root)

\* A name mismatch at the close of a loop inside a loop: no tree.
C2_Witness ==
    /\ Returned /\ ps.errname /\ IsNull(root)
    /\ \E p \in 1 .. ps.errpos : \E q \in 1 .. (p - 1) :
          tokens[p].type = "TT_IMINYR" /\ tokens[q].type = "TT_IMINYR"

\* The clauses of an if/then/else or switch node n: clause k starts with the
\* keyword kw right where clause k - 1 (or, for the first, the part before the
\* clauses, which ends at token from - 1) ended, then guards[k], a NEWLINE and
\* blocks[k]; after the last clause comes one of the tokens in after.
Clauses(n, kw, from, after) ==
    LET g == n.guards.items
        b == n.blocks.items
        at(k) == IF k = 1 THEN from ELSE b[k - 1].last + 1
    IN  /\ Len(g) = Len(b)
        /\ \A k \in DOMAIN g :
              /\ tokens[at(k)].type = kw
              /\ g[k].first = at(k) + 1
              /\ tokens[g[k].last + 1].type = "TT_NEWLINE"
              /\ b[k].first = g[k].last + 2
              /\ b[k].kind = "BlockNode"
        /\ tokens[at(Len(g) + 1)].type \in after

\* C3: in every if/then/else and switch node of a successful parse the guards
\* and the blocks are as many, one guard and one block per MEBBE / OMG clause,
\* and guards[k] is the expression before blocks[k] in the stream.
C3_ListParallelism ==
    /\ \A i \in TreeNodes({"ST_IFTHENELSE"}) :
          Clauses(Tree[i], "TT_MEBBE", Tree[i].yes.last + 1,
                  {"TT_NOWAI", "TT_OIC"})
    /\ \A i \in TreeNodes({"ST_SWITCH"}) :
          Clauses(Tree[i], "TT_OMG", Tree[i].first + 2, {"TT_OMGWTF", "TT_OIC"})

\* A successful parse of an if/then/else with two MEBBE clauses.
C3_Witness ==
    \E i \in TreeNodes({"ST_IFTHENELSE"}) : Len(Tree[i].guards.items) = 2

\* C4: a declaration node of a successful parse has at most one of expr, type
\* and parent: ITZ gives expr alone, ITZ A type alone, ITZ LIEK A parent alone,
\* no initializer none.
C4_DeclarationExclusivity ==
    \A i \in TreeNodes({"ST_DECLARATION"}) :
       LET n == Tree[i]
           init == tokens[n.target.last + 1].type
           set == {f \in {"expr", "type", "parent"} :
                     ~IsNull(IF f = "expr" THEN n.expr
                             ELSE IF f = "type" THEN n.type ELSE n.parent)}
       IN  /\ Cardinality(set) <= 1
           /\ init = "TT_ITZ" => set = {"expr"}
           /\ init = "TT_ITZA" => set = {"type"}
           /\ init = "TT_ITZLIEKA" => set = {"parent"}
           /\ init = "TT_NEWLINE" => set = {}
           /\ init \in {"TT_ITZ", "TT_ITZA", "TT_ITZLIEKA", "TT_NEWLINE"}

\* A successful parse of a declaration with ITZ LIEK A.
C4_Witness ==
    \E i \in TreeNodes({"ST_DECLARATION"}) : ~IsNull(Tree[i].parent)

\* C5: in a successful parse an ALL OF, ANY OF or SMOOSH expression ends with
\* the MKAY that follows its last operand, and a unary or binary operator
\* expression has 1 or 2 operands and ends with its last operand: it takes no
\* MKAY.  So n-ary operands followed by anything but MKAY are no successful
\* parse.
C5_OperatorTerminator ==
    \A i \in TreeNodes({"ET_OP"}) :
       LET n == Tree[i]
           op == tokens[n.first].type
           args == n.args.items
       IN  /\ op \in NaryOps =>
                 /\ Len(args) >= 1
                 /\ tokens[n.last].type = "TT_MKAY"
                 /\ args[Len(args)].last = n.last - 1
           /\ op \in UnaryOps => Len(args) = 1 /\ args[1].last = n.last
           /\ op \in BinaryOps => Len(args) = 2 /\ args[2].last = n.last

\* A successful parse of an n-ary operator with a binary operator for its last
\* operand: the MKAY after it closes the n-ary one.
C5_Witness ==
    \E i \in TreeNodes({"ET_OP"}) :
       LET n == Tree[i]
           args == n.args.items
       IN  /\ tokens[n.first].type \in NaryOps
           /\ args[Len(args)].kind = "ET_OP"
           /\ tokens[args[Len(args)].first].type \in BinaryOps

\* The statements of a root, each as its kind and its span of tokens.
Statements(r) ==
    [k \in DOMAIN r.block.stmts.items |->
        <<r.block.stmts.items[k].kind, r.block.stmts.items[k].first,
          r.block.stmts.items[k].last>>]

\* C6: a banner and statements followed by KTHXBYE NEWLINE, or directly by the
\* end of file, give a root whose block holds the statements in source order:
\* with KTHXBYE NEWLINE the same statements as without, and without it the
\* statements that cover the tokens between the banner and the end of file.
C6_AcceptsBothEndings ==
    phase = "parsed" =>
       LET n == Len(tokens)
           plain == IF n >= 3 /\ tokens[n - 2].type = "TT_KTHXBYE"
                       /\ tokens[n - 1].type = "TT_NEWLINE"
                    THEN parseMainNode(Append(SubSeq(tokens, 1, n - 3), EOF)).node
                    ELSE Null
           s == root.block.stmts.items
       IN  /\ ~IsNull(plain) =>
                ~IsNull(root) /\ Statements(root) = Statements(plain)
           /\ ~IsNull(root) =>
                /\ \A k \in DOMAIN s :
                      s[k].first = IF k = 1 THEN 4 ELSE s[k - 1].last + 1
                /\ IF Len(s) = 0 THEN n = 4 ELSE s[Len(s)].last = n - 1

\* C7: every switch node of a successful parse has at least one guard, the
\* first right after WTF? NEWLINE, and a stream with WTF? NEWLINE followed by
\* OMGWTF or OIC gives no tree.
C7_SwitchHasCase ==
    /\ \A i \in TreeNodes({"ST_SWITCH"}) :
          /\ Len(Tree[i].guards.items) >= 1
          /\ tokens[Tree[i].first + 2].type = "TT_OMG"
    /\ Returned /\ (\E p \in 1 .. (Len(tokens) - 2) :
                       /\ tokens[p].type = "TT_WTF"
                       /\ tokens[p + 1].type = "TT_NEWLINE"
                       /\ tokens[p + 2].type \in {"TT_OMGWTF", "TT_OIC"})
          => IsNull(root)

\* A successful parse of a switch without a default block.
C7_Witness ==
    \E i \in TreeNodes({"ST_SWITCH"}) : IsNull(Tree[i].def)

\* C8: after deleteMainNode on the root of a successful parse every node the
\* parse allocated has been released, each once.
C8_DeleteReleasesAll == phase = "deleted" => ReleasedOnce(1 .. (ps.nx - 1))

\* The tree of a loop with an update and a guard has been deleted.
C8_Witness ==
    /\ phase = "deleted"
    /\ \E i \in TreeNodes({"ST_LOOP"}) :
          ~IsNull(Tree[i].update) /\ ~IsNull(Tree[i].guard)

\* C9: when parseMainNode returns no tree, every node the parse allocated has
\* been released, each once.
C9_FailedParseReleasesAll ==
    phase = "parsed" /\ IsNull(root) => ReleasedOnce(1 .. (ps.nx - 1))

\* A parse that failed at the close of a loop inside a loop, with the outer
\* loop, its body and the inner loop partly built.
C9_Witness ==
    /\ phase = "parsed" /\ IsNull(root) /\ ps.errname /\ ps.nx > 6
    /\ \E p \in 1 .. ps.errpos : \E q \in 1 .. (p - 1) :
          tokens[p].type = "TT_IMINYR" /\ tokens[q].type = "TT_IMINYR"

StmtKinds == {"ST_CAST", "ST_PRINT", "ST_INPUT", "ST_ASSIGNMENT",
              "ST_DECLARATION", "ST_IFTHENELSE", "ST_SWITCH", "ST_BREAK",
              "ST_RETURN", "ST_LOOP", "ST_DEALLOCATION", "ST_FUNCDEF",
              "ST_EXPR", "ST_ALTARRAYDEF"}

\* C10: the last token of every statement of a successful parse, whatever its
\* variant, is a NEWLINE.
C10_StatementsEndWithNewline ==
    \A i \in TreeNodes(StmtKinds) : tokens[Tree[i].last].type = "TT_NEWLINE"

C12_CursorNeverRetreats ==
    [][/\ call'.ret = (tokens[ps.pos].type = call'.type)
       /\ call'.op = "peekToken" => ps'.pos = ps.pos
       /\ call'.op = "acceptToken" =>
             ps'.pos = IF call'.ret THEN ps.pos + 1 ELSE ps.pos
       /\ ps'.pos >= ps.pos]_vars

\* An acceptToken that did not match, after two that did.
C12_Witness ==
    /\ call.op = "acceptToken"
    /\ ~call.ret
    /\ ps.pos = 3

ExprKinds == {"ET_CAST", "ET_CONSTANT", "ET_IDENTIFIER", "ET_FUNCCALL",
              "ET_OP", "ET_IMPVAR"}

Variant(lead, after) ==
    CASE lead = "TT_VISIBLE" -> "ST_PRINT"
      [] lead = "TT_GIMMEH" -> "ST_INPUT"
      [] lead = "TT_ORLY" -> "ST_IFTHENELSE"
      [] lead = "TT_WTF" -> "ST_SWITCH"
      [] lead = "TT_GTFO" -> "ST_BREAK"
      [] lead = "TT_FOUNDYR" -> "ST_RETURN"
      [] lead = "TT_IMINYR" -> "ST_LOOP"
      [] lead = "TT_HOWIZ" -> "ST_FUNCDEF"
      [] lead = "TT_OHAIIM" -> "ST_ALTARRAYDEF"
      [] lead \in {"TT_IDENTIFIER", "TT_SRS"} /\ after = "TT_ISNOWA" -> "ST_CAST"
      [] lead \in {"TT_IDENTIFIER", "TT_SRS"} /\ after = "TT_R" -> "ST_ASSIGNMENT"
      [] lead \in {"TT_IDENTIFIER", "TT_SRS"} /\ after = "TT_HASA" ->
           "ST_DECLARATION"
      [] lead \in {"TT_IDENTIFIER", "TT_SRS"} /\ after = "TT_RNOOB" ->
           "ST_DEALLOCATION"
      [] OTHER -> "ST_EXPR"

\* The token after the identifier that starts at position p, for a position
\* where an identifier starts.
AfterIdentifier(p) ==
    IF tokens[p].type \in {"TT_IDENTIFIER", "TT_SRS"}
    THEN tokens[parseIdentifierNode([StartState(tokens) EXCEPT !.pos = p]).st.pos].type
    ELSE ""

\* C14: every statement node of a successful parse has the type tag of the
\* variant its leading tokens select: the keyword's own variant, or for a
\* leading identifier the variant of the IS NOW A, R, HAS A or R NOOB after
\* it, or else the expression statement, which is an expression and the
\* NEWLINE.
C14_StatementDispatch ==
    \A i \in TreeNodes(StmtKinds) :
       LET n == Tree[i]
       IN  /\ n.kind = Variant(tokens[n.first].type, AfterIdentifier(n.first))
           /\ n.kind = "ST_EXPR" =>
                 /\ n.expr.kind \in ExprKinds
                 /\ n.expr.first = n.first
                 /\ n.expr.last = n.last - 1
                 /\ tokens[n.last].type = "TT_NEWLINE"

\* A successful parse of a cast and of an expression statement that starts
\* with an identifier too.
C14_Witness ==
    /\ \E i \in TreeNodes({"ST_CAST"}) : TRUE
    /\ \E i \in TreeNodes({"ST_EXPR"}) :
          tokens[Tree[i].first].type = "TT_IDENTIFIER"

====
